---- MODULE Spec2Model ----
(***************************************************************************)
(* Gold-signal dashboard: signal status classification, auto-trade risk    *)
(* sizing and execution, subscription tiers and PayMongo payment handlers. *)
(*                                                                         *)
(* Prices are integers counted in points (0.01 USD).  The arithmetic of    *)
(* calculateLotSize is modelled on exact rationals extended with the IEEE  *)
(* values Infinity, -Infinity and NaN that JavaScript division produces;   *)
(* binary floating-point rounding error is not modelled.                   *)
(***************************************************************************)
EXTENDS Integers, Sequences, FiniteSets, TLC

----------------------------------------------------------------------------
(* JavaScript numbers: exact rationals plus Infinity, -Infinity, NaN.      *)

RECURSIVE Gcd(_, _)
Gcd(a, b) == IF b = 0 THEN a ELSE Gcd(b, a % b)

AbsInt(i) == IF i < 0 THEN -i ELSE i

NaN == [k |-> "nan", n |-> 0, d |-> 1]
PosInf == [k |-> "inf", n |-> 1, d |-> 1]
NegInf == [k |-> "inf", n |-> -1, d |-> 1]

\* the finite number n/d (d # 0), in lowest terms with a positive denominator
Rat(n, d) ==
  LET g == Gcd(AbsInt(n), AbsInt(d))
      s == IF d < 0 THEN -1 ELSE 1
  IN [k |-> "fin", n |-> (s * n) \div g, d |-> (s * d) \div g]

Num(i) == Rat(i, 1)

IsNaN(x) == x.k = "nan"
IsFinite(x) == x.k = "fin"

\* sign of a non-NaN number: -1, 0 or 1
Sign(x) == IF x.n > 0 THEN 1 ELSE IF x.n < 0 THEN -1 ELSE 0

\* x < y and x <= y as JavaScript evaluates them (false when either is NaN)
Lt(x, y) ==
  /\ ~IsNaN(x)
  /\ ~IsNaN(y)
  /\ IF IsFinite(x) /\ IsFinite(y) THEN x.n * y.d < y.n * x.d
     ELSE IF IsFinite(x) THEN y.n > 0
     ELSE IF IsFinite(y) THEN x.n < 0
     ELSE x.n < y.n

Le(x, y) == ~IsNaN(x) /\ ~IsNaN(y) /\ ~Lt(y, x)

\* x * y
Mul(x, y) ==
  IF IsNaN(x) \/ IsNaN(y) THEN NaN
  ELSE IF IsFinite(x) /\ IsFinite(y) THEN Rat(x.n * y.n, x.d * y.d)
  ELSE IF Sign(x) * Sign(y) = 0 THEN NaN
  ELSE IF Sign(x) * Sign(y) > 0 THEN PosInf ELSE NegInf

\* x / y; zeros are positive zeros, as they are wherever the code divides
Div(x, y) ==
  IF IsNaN(x) \/ IsNaN(y) THEN NaN
  ELSE IF IsFinite(x) /\ IsFinite(y) THEN
         IF y.n # 0 THEN Rat(x.n * y.d, x.d * y.n)
         ELSE IF x.n = 0 THEN NaN
         ELSE IF x.n > 0 THEN PosInf ELSE NegInf
  ELSE IF IsFinite(x) THEN Num(0)
  ELSE IF IsFinite(y) THEN (IF (x.n > 0) = (y.n >= 0) THEN PosInf ELSE NegInf)
  ELSE NaN

\* x - y on finite numbers
Sub(x, y) == Rat(x.n * y.d - y.n * x.d, x.d * y.d)

\* Math.abs
MathAbs(x) == IF IsNaN(x) THEN NaN ELSE [x EXCEPT !.n = AbsInt(x.n)]

\* Math.round: the nearest integer, ties towards +Infinity
MathRound(x) == IF IsFinite(x) THEN Num((2 * x.n + x.d) \div (2 * x.d)) ELSE x

\* Math.min and Math.max: NaN when either argument is NaN
MathMin(x, y) == IF IsNaN(x) \/ IsNaN(y) THEN NaN ELSE IF Lt(y, x) THEN y ELSE x

MathMax(x, y) == IF IsNaN(x) \/ IsNaN(y) THEN NaN ELSE IF Lt(x, y) THEN y ELSE x

----------------------------------------------------------------------------
(* Bounds of the model.                                                    *)

\* the status model draws entry, stop and target from MaxLevel price levels
MaxLevel == 3
\* the dashboard shows at most MaxSignals signals
MaxSignals == 2
\* the demo broker accepts at most MaxOrders orders
MaxOrders == 2

----------------------------------------------------------------------------
VARIABLES
  signals,            \* Dashboard prop: the signal rows shown
  currentGoldPrice,   \* Dashboard state: latest gold price, 0 before the first fetch
  enhancedSignals,    \* Dashboard state: signals with calculated_status
  lotArgs,            \* arguments of the calculateLotSize call under study
  lotSize,            \* its return value, None before the call returns
  signalRows,         \* table signals: the rows created through the signal manager
  trading_accounts,   \* table trading_accounts, by id
  auto_trade_settings, \* table auto_trade_settings, by trading_account_id; None: no row
  trade_executions,   \* table trade_executions
  openPositions,      \* DemoBrokerAPI.openPositions, all accounts
  orderCounter,       \* DemoBrokerAPI.orderCounter
  now,                \* wall clock: new Date().toTimeString().slice(0, 5)
  profile,            \* useAuth profile: the loaded users row, None when not loaded
  accessCheck,        \* the latest feature check and its results, None before one
  users,              \* table users, by id: the subscription columns
  notifications,      \* table notifications, in insertion order
  sessions,           \* PayMongo's checkout sessions, by id; None: no such session
  exchange,           \* the latest HTTP request handled and its response
  today,              \* the date, in days
  webhookSecret,      \* process.env.PAYMONGO_WEBHOOK_SECRET, None when unset
  apiKey,             \* TwelveDataService.config.apiKey, "" when not configured
  requestCount,       \* TwelveDataService.requestCount
  dayElapsed,         \* whether Date.now() - lastResetTime > oneDayMs
  httpRequests,       \* HTTP requests sent to api.twelvedata.com since the last reset
  lastData,           \* what the latest call of the service returned: "mock", "real"
  mounted,            \* whether the Dashboard is mounted
  marketPrice,        \* the gold price the market data source reports
  alerts,             \* the calls of sendSignalResultAlert made: <<signal id, result>>
  updateCalls         \* the calls of onSignalUpdate made by the monitor

statusVars == <<signals, currentGoldPrice, enhancedSignals>>
lotVars == <<lotArgs, lotSize>>
tradeVars == <<signalRows, trading_accounts, auto_trade_settings, trade_executions,
               openPositions, orderCounter, now>>
accessVars == <<profile, accessCheck>>
payVars == <<users, notifications, sessions, exchange, today, webhookSecret>>
dataVars == <<apiKey, requestCount, dayElapsed, httpRequests, lastData>>
monitorVars == <<mounted, marketPrice, alerts, updateCalls>>
vars == <<signals, currentGoldPrice, enhancedSignals, lotArgs, lotSize, signalRows,
          trading_accounts, auto_trade_settings, trade_executions, openPositions,
          orderCounter, now, profile, accessCheck, users, notifications, sessions,
          exchange, today, webhookSecret, apiKey, requestCount, dayElapsed,
          httpRequests, lastData, mounted, marketPrice, alerts, updateCalls>>

\* no value yet
None == [k |-> "none"]

LotIdle ==
  /\ lotArgs = None
  /\ lotSize = None

AccessIdle ==
  /\ profile = None
  /\ accessCheck = None

PayIdle ==
  /\ users = <<>>
  /\ notifications = <<>>
  /\ sessions = <<>>
  /\ exchange = None
  /\ today = 0
  /\ webhookSecret = None

\* the service as constructed and never called
DataIdle ==
  /\ apiKey = ""
  /\ requestCount = 0
  /\ dayElapsed = FALSE
  /\ httpRequests = 0
  /\ lastData = "none"

\* no Dashboard mounted
MonitorIdle ==
  /\ mounted = FALSE
  /\ marketPrice = 0
  /\ alerts = {}
  /\ updateCalls = 0

\* the first order id of the demo broker
FirstOrderId == 1000

\* the auto-trade part at rest: empty tables, no order
TradeIdle ==
  /\ signalRows = {}
  /\ trading_accounts = <<>>
  /\ auto_trade_settings = <<>>
  /\ trade_executions = {}
  /\ openPositions = {}
  /\ orderCounter = FirstOrderId
  /\ now = <<>>

----------------------------------------------------------------------------
(* src/utils/signalStatus.ts                                               *)

\* calculateSignalStatus with the stop-loss test placed before the take-profit test
calculateSignalStatus_StopFirst(signal, currentPrice) ==
  LET entryPrice == signal.entry_price
      stopLoss == signal.stop_loss
      takeProfit == signal.take_profit
      Info(st, pnl, profit) ==
        [status |-> st, pnl |-> pnl,
         pnlPercentage |-> Mul(Div(Num(pnl), Num(entryPrice)), Num(100)),
         isProfit |-> profit]
  IN IF signal.type = "buy" THEN
       IF currentPrice <= stopLoss THEN Info("hit_sl", stopLoss - entryPrice, FALSE)
       ELSE IF currentPrice >= takeProfit THEN Info("hit_tp", takeProfit - entryPrice, TRUE)
       ELSE IF currentPrice <= entryPrice
         THEN Info("active", currentPrice - entryPrice, currentPrice - entryPrice >= 0)
       ELSE [status |-> "pending"]
     ELSE
       IF currentPrice >= stopLoss THEN Info("hit_sl", entryPrice - stopLoss, FALSE)
       ELSE IF currentPrice <= takeProfit THEN Info("hit_tp", entryPrice - takeProfit, TRUE)
       ELSE IF currentPrice >= entryPrice
         THEN Info("active", entryPrice - currentPrice, entryPrice - currentPrice >= 0)
       ELSE [status |-> "pending"]


\* calculateSignalStatus with the entry test turned round: a buy is active
\* above the entry price, a sell below it
calculateSignalStatus_ActiveBeyondEntry(signal, currentPrice) ==
  LET entryPrice == signal.entry_price
      stopLoss == signal.stop_loss
      takeProfit == signal.take_profit
      signalType == signal.type
      Info(st, pnl, profit) ==
        [status |-> st, pnl |-> pnl,
         pnlPercentage |-> Mul(Div(Num(pnl), Num(entryPrice)), Num(100)),
         isProfit |-> profit]
  IN IF signalType = "buy" THEN
       IF currentPrice >= takeProfit THEN Info("hit_tp", takeProfit - entryPrice, TRUE)
       ELSE IF currentPrice <= stopLoss THEN Info("hit_sl", stopLoss - entryPrice, FALSE)
       ELSE IF currentPrice >= entryPrice
         THEN Info("active", currentPrice - entryPrice, currentPrice - entryPrice >= 0)
       ELSE [status |-> "pending"]
     ELSE IF signalType = "sell" THEN
       IF currentPrice <= takeProfit THEN Info("hit_tp", entryPrice - takeProfit, TRUE)
       ELSE IF currentPrice >= stopLoss THEN Info("hit_sl", entryPrice - stopLoss, FALSE)
       ELSE IF currentPrice <= entryPrice
         THEN Info("active", entryPrice - currentPrice, entryPrice - currentPrice >= 0)
       ELSE [status |-> "pending"]
     ELSE [status |-> "pending"]

\* calculateSignalStatus(signal, currentPrice); statusText is not modelled
calculateSignalStatus(signal, currentPrice) ==
  LET entryPrice == signal.entry_price
      stopLoss == signal.stop_loss
      takeProfit == signal.take_profit
      signalType == signal.type
      Info(st, pnl, profit) ==
        [status |-> st, pnl |-> pnl,
         pnlPercentage |-> Mul(Div(Num(pnl), Num(entryPrice)), Num(100)),
         isProfit |-> profit]
  IN IF signalType = "buy" THEN
       IF currentPrice >= takeProfit THEN Info("hit_tp", takeProfit - entryPrice, TRUE)
       ELSE IF currentPrice <= stopLoss THEN Info("hit_sl", stopLoss - entryPrice, FALSE)
       ELSE IF currentPrice <= entryPrice
         THEN Info("active", currentPrice - entryPrice, currentPrice - entryPrice >= 0)
       ELSE [status |-> "pending"]
     ELSE IF signalType = "sell" THEN
       IF currentPrice <= takeProfit THEN Info("hit_tp", entryPrice - takeProfit, TRUE)
       ELSE IF currentPrice >= stopLoss THEN Info("hit_sl", entryPrice - stopLoss, FALSE)
       ELSE IF currentPrice >= entryPrice
         THEN Info("active", entryPrice - currentPrice, entryPrice - currentPrice >= 0)
       ELSE [status |-> "pending"]
     ELSE [status |-> "pending"]

\* enhanceSignalsWithStatus that also writes the calculated status into the
\* stored status field
enhanceSignalsWithStatus_Overwrite(sigs, currentPrice) ==
  [i \in 1..Len(sigs) |->
     [calculated_status |-> calculateSignalStatus(sigs[i], currentPrice),
      status |-> calculateSignalStatus(sigs[i], currentPrice).status] @@ sigs[i]]

\* enhanceSignalsWithStatus: signals.map(s => ({...s, calculated_status: ...}))
enhanceSignalsWithStatus(sigs, currentPrice) ==
  [i \in 1..Len(sigs) |->
     [calculated_status |-> calculateSignalStatus(sigs[i], currentPrice)] @@ sigs[i]]

\* price levels of signals (the even numbers) and the prices at, around and
\* between them, in points
Levels == {2 * l : l \in 1..MaxLevel}

Prices == 1..(2 * MaxLevel + 1)

\* the signal rows the status model draws from
StatusSignals(i) ==
  [id : {i}, symbol : {"XAUUSD"}, type : {"buy", "sell"},
   entry_price : Levels, stop_loss : Levels, take_profit : Levels,
   status : {"active"}]

\* well-formed rows: stop < entry < target for a buy, target < entry < stop for a sell
WellFormed(sig) ==
  IF sig.type = "buy"
    THEN sig.stop_loss < sig.entry_price /\ sig.entry_price < sig.take_profit
    ELSE sig.take_profit < sig.entry_price /\ sig.entry_price < sig.stop_loss

\* the lists of n rows: any row first, well-formed rows after it, ids by position
RECURSIVE ListsOf(_)
ListsOf(n) ==
  IF n = 1 THEN {<<a>> : a \in StatusSignals(1)}
  ELSE {Append(l, b) : l \in ListsOf(n - 1),
                       b \in {x \in StatusSignals(n) : WellFormed(x)}}

SignalLists == UNION {ListsOf(n) : n \in 1..MaxSignals}

InitStatus ==
  /\ signals \in SignalLists
  /\ currentGoldPrice = 0
  /\ enhancedSignals = <<>>

StatusIdle ==
  /\ signals = <<>>
  /\ currentGoldPrice = 0
  /\ enhancedSignals = <<>>

\* setCurrentGoldPrice(p) followed by the effect that re-enhances the signals
SetCurrentGoldPrice(p) ==
  /\ currentGoldPrice' = p
  /\ enhancedSignals' = IF Len(signals) > 0 /\ p > 0
                          THEN enhanceSignalsWithStatus(signals, p)
                          ELSE enhancedSignals
  /\ UNCHANGED <<signals, lotVars, tradeVars, accessVars, payVars, dataVars, monitorVars>>

NextStatus == \E p \in Prices : SetCurrentGoldPrice(p)

InitSpecStatus == InitStatus /\ LotIdle /\ TradeIdle /\ AccessIdle /\ PayIdle /\ DataIdle /\ MonitorIdle

SpecStatus == InitSpecStatus /\ [][NextStatus]_vars

\* C1: whenever the signals have been enhanced at the current price, each
\* calculated status is the one the fixed comparison order gives (buy: price >=
\* take_profit is hit_tp, else price <= stop_loss is hit_sl, else price <=
\* entry_price is active, else pending; sell mirrored), so it is one of
\* pending, active, hit_tp, hit_sl and never closed.
C1_Expected(sig, p) ==
  CASE sig.type = "buy" /\ p >= sig.take_profit -> "hit_tp"
    [] sig.type = "buy" /\ p < sig.take_profit /\ p <= sig.stop_loss -> "hit_sl"
    [] sig.type = "buy" /\ p < sig.take_profit /\ p > sig.stop_loss
         /\ p <= sig.entry_price -> "active"
    [] sig.type = "sell" /\ p <= sig.take_profit -> "hit_tp"
    [] sig.type = "sell" /\ p > sig.take_profit /\ p >= sig.stop_loss -> "hit_sl"
    [] sig.type = "sell" /\ p > sig.take_profit /\ p < sig.stop_loss
         /\ p >= sig.entry_price -> "active"
    [] OTHER -> "pending"

C1_StatusClassification ==
  currentGoldPrice > 0 =>
    /\ Len(enhancedSignals) = Len(signals)
    /\ \A i \in 1..Len(signals) :
         /\ enhancedSignals[i].calculated_status.status
              = C1_Expected(signals[i], currentGoldPrice)
         /\ enhancedSignals[i].calculated_status.status
              \in {"pending", "active", "hit_tp", "hit_sl"}

\* a buy signal whose price is at or above the target and at or below the stop
\* at once has been classified (hit_tp wins)
C1_Witness ==
  /\ currentGoldPrice > 0
  /\ \E i \in 1..Len(signals) :
       /\ signals[i].type = "buy"
       /\ currentGoldPrice >= signals[i].take_profit
       /\ currentGoldPrice <= signals[i].stop_loss
       /\ enhancedSignals[i].calculated_status.status = "hit_tp"

----------------------------------------------------------------------------
(* src/services/BrokerIntegrationService.ts: DefaultRiskCalculator         *)

\* calculateLotSize with Math.floor in place of Math.round
calculateLotSize_Floor(accountBalance, riskPercentage, entryPrice, stopLossPrice, symbolInfo) ==
  LET riskAmount == Mul(accountBalance, Div(riskPercentage, Num(100)))
      pipDistance == Div(MathAbs(Sub(entryPrice, stopLossPrice)), symbolInfo.point)
      pipValue == Mul(symbolInfo.tick_value, Div(symbolInfo.point, symbolInfo.tick_size))
      lotSize_ == Div(riskAmount, Mul(pipDistance, pipValue))
      steps == Div(lotSize_, symbolInfo.lot_step)
      floored == IF IsFinite(steps) THEN Num(steps.n \div steps.d) ELSE steps
      roundedLotSize == Mul(floored, symbolInfo.lot_step)
  IN MathMax(symbolInfo.min_lot, MathMin(symbolInfo.max_lot, roundedLotSize))

\* calculateLotSize taking riskPercentage as a fraction: no division by 100
calculateLotSize_NoPercent(accountBalance, riskPercentage, entryPrice, stopLossPrice, symbolInfo) ==
  LET riskAmount == Mul(accountBalance, riskPercentage)
      pipDistance == Div(MathAbs(Sub(entryPrice, stopLossPrice)), symbolInfo.point)
      pipValue == Mul(symbolInfo.tick_value, Div(symbolInfo.point, symbolInfo.tick_size))
      lotSize_ == Div(riskAmount, Mul(pipDistance, pipValue))
      roundedLotSize == Mul(MathRound(Div(lotSize_, symbolInfo.lot_step)), symbolInfo.lot_step)
  IN MathMax(symbolInfo.min_lot, MathMin(symbolInfo.max_lot, roundedLotSize))

\* DefaultRiskCalculator.calculateLotSize
calculateLotSize(accountBalance, riskPercentage, entryPrice, stopLossPrice, symbolInfo) ==
  LET riskAmount == Mul(accountBalance, Div(riskPercentage, Num(100)))
      pipDistance == Div(MathAbs(Sub(entryPrice, stopLossPrice)), symbolInfo.point)
      pipValue == Mul(symbolInfo.tick_value, Div(symbolInfo.point, symbolInfo.tick_size))
      lotSize_ == Div(riskAmount, Mul(pipDistance, pipValue))
      roundedLotSize == Mul(MathRound(Div(lotSize_, symbolInfo.lot_step)), symbolInfo.lot_step)
  IN MathMax(symbolInfo.min_lot, MathMin(symbolInfo.max_lot, roundedLotSize))

\* DemoBrokerAPI.getSymbolInfo('XAUUSD')
XauusdInfo ==
  [symbol |-> "XAUUSD", point |-> Rat(1, 100), min_lot |-> Rat(1, 100),
   max_lot |-> Num(100), lot_step |-> Rat(1, 100), tick_value |-> Num(1),
   tick_size |-> Rat(1, 100)]

\* a second symbol with other positive parameters (a five-unit tick on a
\* half-unit tick size, tenth-lot steps)
OtherInfo ==
  [symbol |-> "XAGUSD", point |-> Rat(1, 10), min_lot |-> Rat(1, 10),
   max_lot |-> Num(50), lot_step |-> Rat(1, 10), tick_value |-> Num(5),
   tick_size |-> Rat(1, 2)]

\* the arguments the lot-size model draws from: prices in points (0.01)
LotBalances == {0, 100, 1000, 10000}

LotRisks == {0, 1, 2, 5}

LotEntry == 265000

LotStopDistances == {-1000, -800, -1, 0, 1, 300, 1000}

LotArgs ==
  [accountBalance : {Num(b) : b \in LotBalances},
   riskPercentage : {Num(r) : r \in LotRisks},
   entryPrice : {Rat(LotEntry, 100)},
   stopLossPrice : {Rat(LotEntry + x, 100) : x \in LotStopDistances},
   symbolInfo : {XauusdInfo, OtherInfo}]

\* a caller passes arguments
ChooseLotArgs(a) ==
  /\ lotArgs' = a
  /\ lotSize' = None
  /\ UNCHANGED <<statusVars, tradeVars, accessVars, payVars, dataVars, monitorVars>>

\* the call returns
CalculateLotSize ==
  /\ lotArgs # None
  /\ lotSize = None
  /\ lotSize' = calculateLotSize(lotArgs.accountBalance, lotArgs.riskPercentage,
                                  lotArgs.entryPrice, lotArgs.stopLossPrice,
                                  lotArgs.symbolInfo)
  /\ UNCHANGED <<lotArgs, statusVars, tradeVars, accessVars, payVars, dataVars, monitorVars>>

NextLot == (\E a \in LotArgs : ChooseLotArgs(a)) \/ CalculateLotSize

InitSpecLot == StatusIdle /\ LotIdle /\ TradeIdle /\ AccessIdle /\ PayIdle /\ DataIdle /\ MonitorIdle

SpecLot == InitSpecLot /\ [][NextLot]_vars

\* C2: for entry # stop (and the positive symbol parameters the model draws),
\* the returned lot size is clamp(round(L / lot_step) * lot_step, min_lot,
\* max_lot) with L = riskAmount / (pipDistance * pipValue), riskAmount =
\* balance * riskPct / 100, pipDistance = |entry - stop| / point and pipValue =
\* tick_value * point / tick_size; round(q) is the integer k with
\* k - 1/2 <= q < k + 1/2.
C2_L(a) ==
  LET riskAmount == Div(Mul(a.accountBalance, a.riskPercentage), Num(100))
      diff == Sub(a.entryPrice, a.stopLossPrice)
      pipDistance == Div(IF diff.n < 0 THEN Sub(Num(0), diff) ELSE diff, a.symbolInfo.point)
      pipValue == Div(Mul(a.symbolInfo.tick_value, a.symbolInfo.point), a.symbolInfo.tick_size)
  IN Div(riskAmount, Mul(pipDistance, pipValue))

C2_IsRoundOf(k, q) ==
  /\ k.d = 1
  /\ Le(Sub(k, Rat(1, 2)), q)
  /\ Lt(q, Sub(k, Rat(-1, 2)))

C2_Clamp(x, lo, hi) == IF Lt(x, lo) THEN lo ELSE IF Lt(hi, x) THEN hi ELSE x

C2_LotSizeFormula ==
  (lotSize # None /\ lotArgs.entryPrice # lotArgs.stopLossPrice) =>
    LET q == Div(C2_L(lotArgs), lotArgs.symbolInfo.lot_step)
        k == Num((2 * q.n + q.d) \div (2 * q.d))
    IN /\ C2_IsRoundOf(k, q)
       /\ lotSize = C2_Clamp(Mul(k, lotArgs.symbolInfo.lot_step),
                              lotArgs.symbolInfo.min_lot, lotArgs.symbolInfo.max_lot)

\* a call returned a lot size strictly inside the limits that was rounded up
\* from a raw size off the step grid
C2_Witness ==
  /\ lotSize # None
  /\ lotArgs.entryPrice # lotArgs.stopLossPrice
  /\ Lt(C2_L(lotArgs), lotSize)
  /\ Lt(lotArgs.symbolInfo.min_lot, lotSize)
  /\ Lt(lotSize, lotArgs.symbolInfo.max_lot)

\* C3: for every input, zero stop distance and zero balance or risk included,
\* the returned lot size is a number l with min_lot <= l <= max_lot.
C3_LotSizeInRange ==
  lotSize # None =>
    /\ IsFinite(lotSize)
    /\ Le(lotArgs.symbolInfo.min_lot, lotSize)
    /\ Le(lotSize, lotArgs.symbolInfo.max_lot)

----------------------------------------------------------------------------
(* src/services/BrokerIntegrationService.ts: BrokerIntegrationService      *)

\* Strings that are compared are sequences of character codes: a digit is
\* its value and ':' is Colon, which sorts after every digit as in ASCII.
Colon == 10

\* the string "h1h2:m1m2"
Hhmm(h1, h2, m1, m2) == <<h1, h2, Colon, m1, m2>>

\* a <= b on strings, as JavaScript compares them (code unit by code unit, a
\* proper prefix first)
StrLe(a, b) ==
  LET n == IF Len(a) < Len(b) THEN Len(a) ELSE Len(b)
      diff == {i \in 1..n : a[i] # b[i]}
  IN IF diff = {} THEN Len(a) <= Len(b)
     ELSE LET i == CHOOSE j \in diff : \A l \in diff : j <= l
          IN a[i] < b[i]

\* a value read back from a TIME column: 'HH:MM' is returned as 'HH:MM:00'
TimeColumn(t) == IF Len(t) = 5 THEN t \o <<Colon, 0, 0>> ELSE t

\* the wall-clock readings of the model: 09:00, 17:00, 17:01
Clock == {Hhmm(0, 9, 0, 0), Hhmm(1, 7, 0, 0), Hhmm(1, 7, 0, 1)}

AccountIds == {"a1", "a2"}

\* this.brokers after initializeBrokers()
Brokers == {"demo"}

\* the signal manager's form data: a buy 8.00 above its stop, a sell left with
\* stop_loss = entry_price, and a signal on a symbol the demo broker lacks
SignalForms ==
  {[id |-> "s1", symbol |-> "XAUUSD", type |-> "buy", entry_price |-> 265000,
    stop_loss |-> 264200, take_profit |-> 266000, status |-> "active"],
   [id |-> "s2", symbol |-> "XAUUSD", type |-> "sell", entry_price |-> 265000,
    stop_loss |-> 265000, take_profit |-> 264000, status |-> "active"],
   [id |-> "s3", symbol |-> "EURUSD", type |-> "buy", entry_price |-> 108000,
    stop_loss |-> 107000, take_profit |-> 109000, status |-> "active"]}

\* a trading_accounts row
Account(id, user, broker, acct, balance, st) ==
  [id |-> id, user_id |-> user, broker_name |-> broker, account_id |-> acct,
   account_balance |-> balance, status |-> st]

\* the rows account a1 may hold; a2 is the demo account demo456
A1Rows ==
  {Account("a1", "u1", "demo", "demo123", 10000, "inactive"),
   Account("a1", "u1", "demo", "demo123", 100, "active"),
   Account("a1", "u1", "demo", "demo123", 50, "active"),
   Account("a1", "u1", "ic_markets", "demo123", 10000, "active")}

A2Row == Account("a2", "u2", "demo", "demo456", 5000, "active")

\* the settings objects passed to createAutoTradeSettings; some carry a
\* property enabled, which the parameter type does not list
SettingsObjects ==
  LET base == [risk_per_trade : {2, 6},
               trading_hours_start : {Hhmm(0, 9, 0, 0)},
               trading_hours_end : {Hhmm(1, 7, 0, 0)}]
  IN base \cup {[enabled |-> TRUE] @@ b : b \in base}

\* the column updates a user applies to an auto_trade_settings row
SettingsUpdates ==
  [enabled : BOOLEAN] \cup [emergency_stop : BOOLEAN] \cup [risk_per_trade : {2, 6}]

\* CHECK (risk_per_trade > 0 AND risk_per_trade <= 10)
RiskCheck(row) == row.risk_per_trade > 0 /\ row.risk_per_trade <= 10

InitTrade ==
  /\ signalRows = {}
  /\ trading_accounts \in {[a \in AccountIds |-> IF a = "a1" THEN r ELSE A2Row] : r \in A1Rows}
  /\ auto_trade_settings = [a \in AccountIds |-> None]
  /\ trade_executions = {}
  /\ openPositions = {}
  /\ orderCounter = FirstOrderId
  /\ now \in Clock

\* the clock moves on
Tick(t) ==
  /\ t # now
  /\ now' = t
  /\ UNCHANGED <<signalRows, trading_accounts, auto_trade_settings, trade_executions,
                 openPositions, orderCounter, statusVars, lotVars, accessVars, payVars, dataVars, monitorVars>>

\* createAutoTradeSettings(userId, tradingAccountId, settings) by the owner of
\* the account: insert {user_id, trading_account_id, enabled: false, ...settings};
\* columns the object lacks take their defaults; the insert fails on an
\* existing row (UNIQUE) and on a CHECK violation
CreateAutoTradeSettings(a, settings) ==
  LET inserted == settings @@ [user_id |-> trading_accounts[a].user_id,
                               trading_account_id |-> a, enabled |-> FALSE]
      row == [user_id |-> inserted.user_id,
              trading_account_id |-> inserted.trading_account_id,
              enabled |-> inserted.enabled,
              risk_per_trade |-> inserted.risk_per_trade,
              trading_hours_start |-> TimeColumn(inserted.trading_hours_start),
              trading_hours_end |-> TimeColumn(inserted.trading_hours_end),
              emergency_stop |-> FALSE]
  IN /\ auto_trade_settings[a] = None
     /\ RiskCheck(row)
     /\ auto_trade_settings' = [auto_trade_settings EXCEPT ![a] = row]
     /\ UNCHANGED <<signalRows, trading_accounts, trade_executions, openPositions,
                    orderCounter, now, statusVars, lotVars, accessVars, payVars, dataVars, monitorVars>>

\* an update of the row by its user (row-level policy "Users can update their
\* own auto trade settings")
UpdateAutoTradeSettings(a, upd) ==
  LET row == upd @@ auto_trade_settings[a]
  IN /\ auto_trade_settings[a] # None
     /\ row # auto_trade_settings[a]
     /\ RiskCheck(row)
     /\ auto_trade_settings' = [auto_trade_settings EXCEPT ![a] = row]
     /\ UNCHANGED <<signalRows, trading_accounts, trade_executions, openPositions,
                    orderCounter, now, statusVars, lotVars, accessVars, payVars, dataVars, monitorVars>>

\* validateTrade without the minimum-balance test
validateTrade_NoBalance(signal, account, settings) ==
  IF account.status # "active"
    THEN [valid |-> FALSE, reason |-> "Trading account not active"]
  ELSE IF settings.emergency_stop
    THEN [valid |-> FALSE, reason |-> "Emergency stop activated"]
  ELSE IF settings.risk_per_trade > 5
    THEN [valid |-> FALSE, reason |-> "Risk per trade too high (max 5%)"]
  ELSE [valid |-> TRUE, reason |-> ""]

\* DefaultRiskCalculator.validateTrade
validateTrade(signal, account, settings) ==
  IF account.status # "active"
    THEN [valid |-> FALSE, reason |-> "Trading account not active"]
  ELSE IF settings.emergency_stop
    THEN [valid |-> FALSE, reason |-> "Emergency stop activated"]
  ELSE IF settings.risk_per_trade > 5
    THEN [valid |-> FALSE, reason |-> "Risk per trade too high (max 5%)"]
  ELSE IF account.account_balance < 100
    THEN [valid |-> FALSE, reason |-> "Insufficient account balance"]
  ELSE [valid |-> TRUE, reason |-> ""]

\* isWithinTradingHours(settings) at the clock reading currentTime
isWithinTradingHours(settings, currentTime) ==
  /\ StrLe(settings.trading_hours_start, currentTime)
  /\ StrLe(currentTime, settings.trading_hours_end)

\* getAutoTradeSettings(userId, tradingAccountId): the row or None (null)
getAutoTradeSettings(userId, tradingAccountId) ==
  IF /\ auto_trade_settings[tradingAccountId] # None
     /\ auto_trade_settings[tradingAccountId].user_id = userId
    THEN auto_trade_settings[tradingAccountId]
    ELSE None

\* DemoBrokerAPI.getSymbolInfo throws for every symbol but XAUUSD
SymbolSupported(symbol) == symbol = "XAUUSD"

\* One pass of the loop body of executeSignalAutoTrade for account, from the
\* broker and table contents st; insertOk says whether the database accepts
\* the trade_executions row.  Every `continue` and the caught exception of
\* getSymbolInfo leave st as it is.
AutoTradeAccount(signal, account, st, insertOk) ==
  LET settings == getAutoTradeSettings(account.user_id, account.id)
  IN IF settings = None THEN st
     ELSE IF ~settings.enabled THEN st
     ELSE IF ~validateTrade(signal, account, settings).valid THEN st
     ELSE IF ~isWithinTradingHours(settings, now) THEN st
     ELSE IF account.broker_name \notin Brokers THEN st
     ELSE IF ~SymbolSupported(signal.symbol) THEN st
     ELSE
       LET lot == calculateLotSize(Num(account.account_balance),
                                   Num(settings.risk_per_trade),
                                   Rat(signal.entry_price, 100),
                                   Rat(signal.stop_loss, 100), XauusdInfo)
           position == [id |-> st.ctr, account_id |-> account.account_id,
                        symbol |-> signal.symbol, type |-> signal.type,
                        lot_size |-> lot, stop_loss |-> signal.stop_loss,
                        take_profit |-> signal.take_profit]
           execution == [signal_id |-> signal.id, user_id |-> account.user_id,
                         trading_account_id |-> account.id,
                         symbol |-> signal.symbol, trade_type |-> signal.type,
                         lot_size |-> lot, entry_price |-> signal.entry_price,
                         stop_loss |-> signal.stop_loss,
                         take_profit |-> signal.take_profit, status |-> "filled",
                         broker_order_id |-> st.ctr]
           \* CHECK (lot_size > 0) of trade_executions
           accepted == insertOk /\ Lt(Num(0), lot)
       IN [pos |-> st.pos \cup {position},
           ctr |-> st.ctr + 1,
           exe |-> IF accepted THEN st.exe \cup {execution} ELSE st.exe]

\* the for loop of executeSignalAutoTrade over userTradingAccounts
RECURSIVE AutoTradeLoop(_, _, _, _)
AutoTradeLoop(signal, accounts, st, insertOk) ==
  IF accounts = <<>> THEN st
  ELSE AutoTradeLoop(signal, Tail(accounts),
                     AutoTradeAccount(signal, Head(accounts), st,
                                      Head(accounts).id \in insertOk),
                     insertOk)

\* the arrays of trading_accounts rows a caller passes
AccountLists ==
  {<<trading_accounts[a]>> : a \in AccountIds}
    \cup UNION {{<<trading_accounts[a], trading_accounts[b]>> :
                    b \in AccountIds \ {a}} : a \in AccountIds}

\* executeSignalAutoTrade(signal, userTradingAccounts); insertOk: the accounts
\* whose trade_executions insert the database accepts
ExecuteSignalAutoTrade(signal, accounts, insertOk) ==
  LET st == AutoTradeLoop(signal, accounts,
                          [pos |-> openPositions, ctr |-> orderCounter,
                           exe |-> trade_executions], insertOk)
  IN /\ signal \in signalRows
     /\ orderCounter + Len(accounts) <= FirstOrderId + MaxOrders
     /\ st.ctr # orderCounter
     /\ openPositions' = st.pos
     /\ orderCounter' = st.ctr
     /\ trade_executions' = st.exe
     /\ UNCHANGED <<signalRows, trading_accounts, auto_trade_settings, now,
                    statusVars, lotVars, accessVars, payVars, dataVars, monitorVars>>

\* SignalManager.handleSubmit for a new signal: createSignal inserts the row
\* (a failed insert returns null and changes nothing), then
\* executeSignalAutoTrade(newSignal, allTradingAccounts) runs with
\* allTradingAccounts = []
HandleSubmit(formData) ==
  LET allTradingAccounts == <<>>
      st == AutoTradeLoop(formData, allTradingAccounts,
                          [pos |-> openPositions, ctr |-> orderCounter,
                           exe |-> trade_executions], AccountIds)
  IN /\ formData \notin signalRows
     /\ signalRows' = signalRows \cup {formData}
     /\ openPositions' = st.pos
     /\ orderCounter' = st.ctr
     /\ trade_executions' = st.exe
     /\ UNCHANGED <<trading_accounts, auto_trade_settings, now, statusVars, lotVars, accessVars, payVars, dataVars, monitorVars>>

Next ==
  \/ \E t \in Clock : Tick(t)
  \/ \E a \in AccountIds, o \in SettingsObjects : CreateAutoTradeSettings(a, o)
  \/ \E a \in AccountIds, u \in SettingsUpdates : UpdateAutoTradeSettings(a, u)
  \/ \E f \in SignalForms : HandleSubmit(f)
  \/ \E sig \in SignalForms, l \in AccountLists, ok \in SUBSET AccountIds :
       ExecuteSignalAutoTrade(sig, l, ok)

InitSpec == StatusIdle /\ LotIdle /\ InitTrade /\ AccessIdle /\ PayIdle /\ DataIdle /\ MonitorIdle

Spec == InitSpec /\ [][Next]_vars

\* the trading account an open position belongs to, and the signal it copies
PositionAccount(p) ==
  trading_accounts[CHOOSE a \in AccountIds : trading_accounts[a].account_id = p.account_id]

PositionSignal(p) ==
  CHOOSE sig \in SignalForms :
    /\ sig.symbol = p.symbol
    /\ sig.type = p.type
    /\ sig.stop_loss = p.stop_loss
    /\ sig.take_profit = p.take_profit

\* pipDistance * pipValue of a signal on XAUUSD: the loss per lot at the stop
LossPerLot(sig) ==
  LET d == sig.entry_price - sig.stop_loss
      pipDistance == Div(Rat(IF d < 0 THEN -d ELSE d, 100), XauusdInfo.point)
      pipValue == Div(Mul(XauusdInfo.tick_value, XauusdInfo.point), XauusdInfo.tick_size)
  IN Mul(pipDistance, pipValue)

\* account_balance * risk_per_trade / 100
RiskBudget(account, settings) == Rat(account.account_balance * settings.risk_per_trade, 100)

\* C4 as claimed: for every order a step places, the loss at the stop-loss,
\* lot_size * pipDistance * pipValue, does not exceed
\* account_balance * risk_per_trade / 100.
C4_LossWithinRisk ==
  [][\A p \in openPositions' \ openPositions :
       Le(Mul(p.lot_size, LossPerLot(PositionSignal(p))),
          RiskBudget(PositionAccount(p), auto_trade_settings[PositionAccount(p).id]))]_vars

\* C4 amended: for every order a step places, the loss at the stop-loss exceeds
\* account_balance * risk_per_trade / 100 by at most half a lot step's loss
\* (lot_step / 2 * pipDistance * pipValue), unless the lot size is the broker
\* minimum min_lot.
C4_LossWithinRiskRounded ==
  [][\A p \in openPositions' \ openPositions :
       LET perLot == LossPerLot(PositionSignal(p))
           budget == RiskBudget(PositionAccount(p),
                                auto_trade_settings[PositionAccount(p).id])
           halfStep == Mul(Mul(XauusdInfo.lot_step, Rat(1, 2)), perLot)
       IN \/ p.lot_size = XauusdInfo.min_lot
          \/ Le(Mul(p.lot_size, perLot), Sub(budget, Sub(Num(0), halfStep)))]_vars

\* an order above the minimum lot whose loss at the stop is more than the risk
\* budget of its account: the size was rounded up
C4_Witness ==
  \E p \in openPositions :
    /\ auto_trade_settings[PositionAccount(p).id] # None
    /\ Lt(XauusdInfo.min_lot, p.lot_size)
    /\ Lt(RiskBudget(PositionAccount(p), auto_trade_settings[PositionAccount(p).id]),
          Mul(p.lot_size, LossPerLot(PositionSignal(p))))

\* minutes since midnight of a string 'HH:MM' or 'HH:MM:SS'
Minutes(t) == (t[1] * 10 + t[2]) * 60 + t[4] * 10 + t[5]

\* every condition the claim lists holds for account a now
C5_Conditions(a) ==
  LET account == trading_accounts[a]
      settings == auto_trade_settings[a]
  IN /\ settings # None
     /\ settings.enabled
     /\ account.status = "active"
     /\ ~settings.emergency_stop
     /\ settings.risk_per_trade <= 5
     /\ account.account_balance >= 100
     /\ Minutes(settings.trading_hours_start) <= Minutes(now)
     /\ Minutes(now) <= Minutes(settings.trading_hours_end)
     /\ account.broker_name \in Brokers

\* C5: a step places an order, or records a trade execution, for an account
\* only if at that moment its settings exist and are enabled, it is active,
\* emergency_stop is false, risk_per_trade <= 5, account_balance >= 100, the
\* time lies within the trading hours and its broker is registered.
C5_OrderOnlyIfAllowed ==
  [][/\ \A p \in openPositions' \ openPositions : C5_Conditions(PositionAccount(p).id)
     /\ \A e \in trade_executions' \ trade_executions :
          C5_Conditions(e.trading_account_id)]_vars

\* an order has been placed and recorded for account a1 at the closing minute
\* while a2 has no order
C5_Witness ==
  /\ now = Hhmm(1, 7, 0, 0)
  /\ \E p \in openPositions : p.account_id = "demo123"
  /\ \E e \in trade_executions : e.trading_account_id = "a1"
  /\ \A p \in openPositions : p.account_id # "demo456"

\* C6 as claimed, at the return of handleSubmit (which awaits the auto-trade):
\* once a step has published a new signal, every active account with enabled
\* settings that pass validation (and, here, within trading hours, on a
\* registered broker and a supported symbol) has an order for that signal.
C6_OrderForEveryAccount ==
  [][\A sig \in signalRows' \ signalRows :
       \A a \in AccountIds :
         (C5_Conditions(a) /\ SymbolSupported(sig.symbol)) =>
           \E p \in openPositions' :
             /\ p.account_id = trading_accounts[a].account_id
             /\ PositionSignal(p) = sig]_vars

\* C7 as claimed: whatever settings object is passed, the row a step creates
\* has enabled = false.
C7_CreatedDisabled ==
  [][\A a \in AccountIds :
       (auto_trade_settings[a] = None /\ auto_trade_settings'[a] # None) =>
         ~auto_trade_settings'[a].enabled]_vars

----------------------------------------------------------------------------
(* hooks/useFeatureAccess (src/unnamed/part_008)                           *)

Features ==
  {"basic_signals", "unlimited_signals", "analytics", "real_time_alerts",
   "subscriber_management", "custom_signals", "consultation", "whatsapp_alerts",
   "api_access", "course_access"}

\* the keys of TIER_FEATURES in insertion order
TierKeys == <<"free", "basic", "premium", "vip">>

Tiers == {TierKeys[i] : i \in 1..Len(TierKeys)}

TIER_FEATURES ==
  [t \in Tiers |->
     CASE t = "free" -> {"basic_signals"}
       [] t = "basic" -> {"basic_signals"}
       [] t = "premium" -> {"basic_signals", "unlimited_signals", "analytics",
                            "real_time_alerts"}
       [] t = "vip" -> Features]

\* hasAccess(feature) with the profile p
hasAccess(p, feature) ==
  IF p = None THEN FALSE
  ELSE LET userTier == p.subscription_tier
           tierFeatures == IF userTier \in DOMAIN TIER_FEATURES
                             THEN TIER_FEATURES[userTier]
                             ELSE TIER_FEATURES["free"]
       IN feature \in tierFeatures

\* getRequiredTier returning the last tier that lists the feature
getRequiredTier_Last(feature) ==
  LET having == {i \in 1..Len(TierKeys) : feature \in TIER_FEATURES[TierKeys[i]]}
  IN IF having = {} THEN "premium"
     ELSE TierKeys[CHOOSE i \in having : \A j \in having : i >= j]

\* getRequiredTier(feature): the first tier, in key order, that lists it
getRequiredTier(feature) ==
  LET having == {i \in 1..Len(TierKeys) : feature \in TIER_FEATURES[TierKeys[i]]}
  IN IF having = {} THEN "premium"
     ELSE TierKeys[CHOOSE i \in having : \A j \in having : i <= j]

\* the users rows a profile is loaded from
ProfileRows ==
  [subscription_tier : Tiers, subscription_status : {"active", "canceled", "past_due"}]

\* fetchUserProfile succeeded: setProfile(data)
LoadProfile(row) ==
  /\ profile # row
  /\ profile' = row
  /\ UNCHANGED <<accessCheck, statusVars, lotVars, tradeVars, payVars, dataVars, monitorVars>>

\* signed out: setProfile(null)
SignOut ==
  /\ profile # None
  /\ profile' = None
  /\ UNCHANGED <<accessCheck, statusVars, lotVars, tradeVars, payVars, dataVars, monitorVars>>

\* a component asks hasAccess(feature) and getRequiredTier(feature)
CheckAccess(feature) ==
  /\ accessCheck' = [feature |-> feature, profile |-> profile,
                      granted |-> hasAccess(profile, feature),
                      required |-> getRequiredTier(feature)]
  /\ UNCHANGED <<profile, statusVars, lotVars, tradeVars, payVars, dataVars, monitorVars>>

NextAccess ==
  \/ \E row \in ProfileRows : LoadProfile(row)
  \/ SignOut
  \/ \E f \in Features : CheckAccess(f)

InitSpecAccess == StatusIdle /\ LotIdle /\ TradeIdle /\ AccessIdle /\ PayIdle /\ DataIdle /\ MonitorIdle

SpecAccess == InitSpecAccess /\ [][NextAccess]_vars

\* the claimed order free < basic < premium < vip
C8_Rank(t) == CASE t = "free" -> 0 [] t = "basic" -> 1 [] t = "premium" -> 2 [] t = "vip" -> 3

\* C8: a feature check with a loaded profile of tier t grants access exactly
\* when t is at or above the feature's required tier; with no loaded profile
\* it grants nothing.
C8_TierGating ==
  accessCheck # None =>
    IF accessCheck.profile = None THEN ~accessCheck.granted
    ELSE accessCheck.granted
           <=> C8_Rank(accessCheck.profile.subscription_tier) >= C8_Rank(accessCheck.required)

\* a premium profile was granted analytics and a basic profile was refused it
C8_Witness ==
  /\ accessCheck # None
  /\ accessCheck.profile # None
  /\ accessCheck.feature = "analytics"
  /\ \/ accessCheck.profile.subscription_tier = "premium" /\ accessCheck.granted
     \/ accessCheck.profile.subscription_tier = "basic" /\ ~accessCheck.granted

----------------------------------------------------------------------------
(* PayMongo payments: api/create-checkout-session.ts,                      *)
(* api/verify-paymongo-session.ts, api/paymongo-webhook.ts and             *)
(* services/PayMongoService.ts                                             *)

\* the checkout sessions PayMongo may hold at once
MaxSessions == 1

\* the notifications rows the table may hold
MaxNotifications == 2

UserIds == {"u1", "u2"}

\* the ids PayMongo gives its checkout sessions, in the order of creation
SessionIdNames == <<"cs_1", "cs_2", "cs_3">>

SessionIds == {SessionIdNames[i] : i \in 1..MaxSessions}

\* a date, in days, against the null of an unset column
Date(day) == [k |-> "date", day |-> day]

\* the users row createUserProfile inserts
NewUser ==
  [subscription_tier |-> "free", subscription_status |-> "active",
   subscription_end_date |-> None]

\* the secrets PAYMONGO_WEBHOOK_SECRET may be set to; "": unset
WebhookSecrets == {"", "whsec_1"}

InitPay ==
  /\ users = [u \in UserIds |-> NewUser]
  /\ notifications = <<>>
  /\ sessions = [s \in SessionIds |-> None]
  /\ exchange = None
  /\ today = 0
  /\ webhookSecret \in WebhookSecrets

\* res.status(status).json({ error }), or the success body named by error = ""
Response(handler, status, error) ==
  [handler |-> handler, status |-> status, error |-> error]

\* subscriptionEndDate: new Date() with setDate(getDate() + 30)
subscriptionEndDate == Date(today + 30)

\* supabase.from('users').update({...}).eq('id', userId): the rows after it
UpdateUsers(userId, plan) ==
  [u \in UserIds |->
     IF u = userId
       THEN [subscription_tier |-> plan, subscription_status |-> "active",
             subscription_end_date |-> subscriptionEndDate]
       ELSE users[u]]

\* planDetails of create-checkout-session: the amount in centavos
planDetails ==
  [premium |-> [name |-> "Gold Signal Premium Plan", amount |-> 145000],
   vip |-> [name |-> "Gold Signal VIP Plan", amount |-> 495000]]

\* names every object inherits from Object.prototype
ObjectPrototypeKeys ==
  {"constructor", "toString", "valueOf", "hasOwnProperty", "isPrototypeOf",
   "propertyIsEnumerable", "toLocaleString", "__proto__"}

Undefined == [k |-> "undefined"]

\* the inherited value a prototype key reads: truthy, without name or amount
Inherited == [k |-> "inherited"]

\* planDetails[plan as 'premium' | 'vip']: own keys, then the prototype chain
SelectedPlan(plan) ==
  IF plan \in DOMAIN planDetails THEN planDetails[plan]
  ELSE IF plan \in ObjectPrototypeKeys THEN Inherited
  ELSE Undefined

\* the session ids PayMongo has not given out
FreeSessionIds == {i \in 1..MaxSessions : sessions[SessionIdNames[i]] = None}

\* the plan fields of the request bodies; "": none
Plans == {"premium", "vip", "basic", "constructor", ""}

\* create-checkout-session's handler; apiOk: PayMongo answers the POST with 2xx.
\* The success_url is kept by the plan it ends in.
CreateCheckoutSession(method, plan, userId, secretKeySet, apiOk) ==
  LET h == "create-checkout-session"
      reject(status, error) ==
        /\ exchange' = Response(h, status, error)
        /\ UNCHANGED sessions
  IN /\ IF method # "POST" THEN reject(405, "Method not allowed")
        ELSE IF plan = "" \/ userId = ""
          THEN reject(400, "Missing required fields: plan, userId")
        ELSE IF ~secretKeySet THEN reject(500, "PayMongo secret key not configured")
        ELSE IF SelectedPlan(plan) = Undefined
          THEN reject(400, "Invalid plan. Must be \"premium\" or \"vip\"")
        \* the request is sent from here on; PayMongo refuses a line item
        \* without an amount
        ELSE IF SelectedPlan(plan) = Inherited THEN reject(400, "PayMongo API error")
        ELSE IF ~apiOk \/ FreeSessionIds = {} THEN reject(402, "PayMongo API error")
        ELSE
          LET id == SessionIdNames[CHOOSE i \in FreeSessionIds :
                                     \A j \in FreeSessionIds : i <= j]
          IN /\ sessions' =
                  [sessions EXCEPT ![id] =
                     [status |-> "active",
                      amount |-> planDetails[plan].amount,
                      success_url |-> [plan |-> plan],
                      metadata |-> [plan |-> plan, user_id |-> userId]]]
             /\ exchange' = Response(h, 200, "")
     /\ UNCHANGED <<users, notifications, today, webhookSecret,
                    statusVars, lotVars, tradeVars, accessVars,
                 dataVars, monitorVars>>

\* the customer pays on the checkout page
PaySession(id) ==
  /\ sessions[id] # None
  /\ sessions[id].status = "active"
  /\ sessions' = [sessions EXCEPT ![id].status = "paid"]
  /\ UNCHANGED <<users, notifications, exchange, today, webhookSecret,
                 statusVars, lotVars, tradeVars, accessVars,
                 dataVars, monitorVars>>

\* the checkout session expires unpaid
ExpireSession(id) ==
  /\ sessions[id] # None
  /\ sessions[id].status = "active"
  /\ sessions' = [sessions EXCEPT ![id].status = "expired"]
  /\ UNCHANGED <<users, notifications, exchange, today, webhookSecret,
                 statusVars, lotVars, tradeVars, accessVars,
                 dataVars, monitorVars>>

\* session.success_url?.includes('plan=premium')
IncludesPlanPremium(success_url) == success_url.plan = "premium"

\* PayMongoService.verifySession(sessionId): the session's attributes, or
\* Thrown when the GET is not answered with 2xx (fetchOk false, or no such
\* session)
Thrown == [k |-> "thrown"]

verifySession(sessionId, fetchOk) ==
  IF ~fetchOk \/ sessionId \notin SessionIds THEN Thrown
  ELSE IF sessions[sessionId] = None THEN Thrown
  ELSE sessions[sessionId]

\* PayMongoService.updateUserSubscription(userId, plan, sessionId); dbOk: the
\* update returns no error.  The rows after it and the boolean it returns.
updateUserSubscription(userId, plan, dbOk) ==
  IF dbOk THEN [users |-> UpdateUsers(userId, plan), success |-> TRUE]
  ELSE [users |-> users, success |-> FALSE]

\* verify-paymongo-session's handler upgrading whatever the session status
verifyPaymongoSession_AnyStatus(method, session_id, user_id, fetchOk, dbOk) ==
  LET h == "verify-paymongo-session"
      keep(status, error) == [users |-> users, res |-> Response(h, status, error)]
  IN IF method # "POST" THEN keep(405, "Method not allowed")
     ELSE IF session_id = "" \/ user_id = ""
       THEN keep(400, "Missing session_id or user_id")
     ELSE
       LET session == verifySession(session_id, fetchOk)
       IN IF session = Thrown THEN keep(500, "Session verification failed")
          ELSE
            LET plan == IF IncludesPlanPremium(session.success_url)
                          THEN "premium" ELSE "vip"
                upd == updateUserSubscription(user_id, plan, dbOk)
            IN IF upd.success
                 THEN [users |-> upd.users, res |-> Response(h, 200, "")]
                 ELSE keep(500, "Failed to update user subscription")

\* verify-paymongo-session's handler: the users rows after it and its response
verifyPaymongoSession(method, session_id, user_id, fetchOk, dbOk) ==
  LET h == "verify-paymongo-session"
      keep(status, error) == [users |-> users, res |-> Response(h, status, error)]
  IN IF method # "POST" THEN keep(405, "Method not allowed")
     ELSE IF session_id = "" \/ user_id = ""
       THEN keep(400, "Missing session_id or user_id")
     ELSE
       LET session == verifySession(session_id, fetchOk)
       IN IF session = Thrown THEN keep(500, "Session verification failed")
          ELSE IF session.status = "paid"
            THEN
              LET plan == IF IncludesPlanPremium(session.success_url)
                            THEN "premium" ELSE "vip"
                  upd == updateUserSubscription(user_id, plan, dbOk)
              IN IF upd.success
                   THEN [users |-> upd.users, res |-> Response(h, 200, "")]
                   ELSE keep(500, "Failed to update user subscription")
          ELSE keep(400, "Payment not completed")

\* a request to /api/verify-paymongo-session
VerifyPaymongoSession(method, session_id, user_id, fetchOk, dbOk) ==
  LET r == verifyPaymongoSession(method, session_id, user_id, fetchOk, dbOk)
  IN /\ users' = r.users
     /\ exchange' = r.res
     /\ UNCHANGED <<notifications, sessions, today, webhookSecret,
                    statusVars, lotVars, tradeVars, accessVars,
                 dataVars, monitorVars>>

\* crypto.createHmac('sha256', key).update(JSON.stringify(body)).digest('hex'):
\* one digest for each key and body
Hmac(key, body) == [k |-> "hmac", key |-> key, body |-> body]

\* the event types PayMongo sends, and one the handler does not handle
EventTypes ==
  {"checkout_session.payment.paid", "checkout_session.payment.failed", "payment.paid"}

\* the request bodies: events whose attributes carry metadata, and a body
\* without data
Malformed == [k |-> "malformed"]

WebhookBodies ==
  {[k |-> "event", type |-> t, metadata |-> [user_id |-> u, plan |-> pl]] :
     t \in EventTypes, u \in UserIds \cup {""}, pl \in {"premium", "vip", ""}}
    \cup {Malformed}

\* a notifications row
Notification(user_id, type) == [user_id |-> user_id, type |-> type]

\* handleSuccessfulPayment(checkoutSession); dbOk: the users update returns
\* no error, notifOk: the notifications insert returns no error
handleSuccessfulPayment(metadata, dbOk, notifOk) ==
  IF metadata.user_id = "" \/ metadata.plan = ""
    THEN [users |-> users, notifications |-> notifications]
  ELSE IF ~dbOk THEN [users |-> users, notifications |-> notifications]
  ELSE [users |-> UpdateUsers(metadata.user_id, metadata.plan),
        notifications |->
          IF notifOk
            THEN Append(notifications, Notification(metadata.user_id, "subscription"))
            ELSE notifications]

\* handleFailedPayment(checkoutSession)
handleFailedPayment(metadata, notifOk) ==
  [users |-> users,
   notifications |->
     IF metadata.user_id # "" /\ notifOk
       THEN Append(notifications, Notification(metadata.user_id, "payment"))
       ELSE notifications]

\* paymongo-webhook's handler: the rows after it and its response; signature
\* is the paymongo-signature header, None when the request has none
paymongoWebhook(method, signature, body, dbOk, notifOk) ==
  LET h == "paymongo-webhook"
      keep(status, error) ==
        [users |-> users, notifications |-> notifications,
         res |-> Response(h, status, error)]
  IN IF method # "POST" THEN keep(405, "Method not allowed")
     ELSE IF /\ webhookSecret # ""
             /\ signature # None
             /\ signature # Hmac(webhookSecret, body)
       THEN keep(400, "Invalid signature")
     ELSE IF body = Malformed THEN keep(500, "Webhook handler failed")
     ELSE
       LET after ==
             CASE body.type = "checkout_session.payment.paid" ->
                    handleSuccessfulPayment(body.metadata, dbOk, notifOk)
               [] body.type = "checkout_session.payment.failed" ->
                    handleFailedPayment(body.metadata, notifOk)
               [] OTHER -> [users |-> users, notifications |-> notifications]
       IN [users |-> after.users, notifications |-> after.notifications,
           res |-> Response(h, 200, "")]

\* the paymongo-signature headers a sender may attach to body: none, the
\* digest under the configured secret (when one is configured), and a digest
\* under another key
SignatureHeaders(body) ==
  {None, Hmac("forged", body)}
    \cup (IF webhookSecret = "" THEN {} ELSE {Hmac(webhookSecret, body)})

\* a request to /api/paymongo-webhook
PaymongoWebhook(method, signature, body, dbOk, notifOk) ==
  LET r == paymongoWebhook(method, signature, body, dbOk, notifOk)
  IN /\ Len(r.notifications) <= MaxNotifications
     /\ users' = r.users
     /\ notifications' = r.notifications
     /\ exchange' = r.res
     /\ UNCHANGED <<sessions, today, webhookSecret,
                    statusVars, lotVars, tradeVars, accessVars,
                 dataVars, monitorVars>>

Methods == {"POST", "GET"}

\* the checkout flow: sessions are created, paid or left to expire, and verified
NextCheckout ==
  \/ \E method \in Methods, plan \in Plans,
        userId \in UserIds \cup {""}, secretKeySet \in BOOLEAN, apiOk \in BOOLEAN :
       CreateCheckoutSession(method, plan, userId, secretKeySet, apiOk)
  \/ \E id \in SessionIds : PaySession(id)
  \/ \E id \in SessionIds : ExpireSession(id)
  \/ \E method \in Methods, session_id \in SessionIds \cup {"", "cs_unknown"},
        user_id \in UserIds \cup {""}, fetchOk \in BOOLEAN, dbOk \in BOOLEAN :
       VerifyPaymongoSession(method, session_id, user_id, fetchOk, dbOk)

InitSpecCheckout == StatusIdle /\ LotIdle /\ TradeIdle /\ AccessIdle /\ InitPay /\ DataIdle /\ MonitorIdle

SpecCheckout == InitSpecCheckout /\ [][NextCheckout]_vars

\* the webhook endpoint, open to any sender
NextWebhook ==
  \E method \in Methods, body \in WebhookBodies, dbOk \in BOOLEAN,
     notifOk \in BOOLEAN :
    \E signature \in SignatureHeaders(body) :
      PaymongoWebhook(method, signature, body, dbOk, notifOk)

InitSpecWebhook == StatusIdle /\ LotIdle /\ TradeIdle /\ AccessIdle /\ InitPay /\ DataIdle /\ MonitorIdle

SpecWebhook == InitSpecWebhook /\ [][NextWebhook]_vars

\* C9 as claimed: a POST to the webhook whose paymongo-signature header is
\* missing, or is not the HMAC-SHA256 of its body under
\* PAYMONGO_WEBHOOK_SECRET, changes no user's subscription columns and
\* inserts no notification.
C9_UnsignedChangesNothing ==
  [][\A body \in WebhookBodies, dbOk \in BOOLEAN, notifOk \in BOOLEAN :
       \A signature \in {None, Hmac("forged", body)} :
         PaymongoWebhook("POST", signature, body, dbOk, notifOk) =>
           (users' = users /\ notifications' = notifications)]_vars

\* C10: a POST to verify-paymongo-session changes a users row only when the
\* session retrieved for session_id has status 'paid'; for a retrieved session
\* of any other status the response is 400 'Payment not completed' and users
\* is unchanged; when retrieval throws the response is 500 and users is
\* unchanged.
C10_VerifyOnlyPaid ==
  [][\A session_id \in SessionIds \cup {"cs_unknown"}, user_id \in UserIds,
        fetchOk \in BOOLEAN, dbOk \in BOOLEAN :
       VerifyPaymongoSession("POST", session_id, user_id, fetchOk, dbOk) =>
         LET session == verifySession(session_id, fetchOk)
         IN /\ users' # users => (session # Thrown /\ session.status = "paid")
            /\ (session # Thrown /\ session.status # "paid") =>
                 /\ exchange'.status = 400
                 /\ exchange'.error = "Payment not completed"
                 /\ users' = users
            /\ session = Thrown =>
                 (exchange'.status = 500 /\ users' = users)]_vars

\* a request for a paid session has upgraded a user and was answered 200
C10_Witness ==
  /\ exchange = Response("verify-paymongo-session", 200, "")
  /\ \E u \in UserIds : users[u].subscription_tier # "free"
  /\ \E id \in SessionIds : sessions[id] # None /\ sessions[id].status = "paid"

\* C11 as claimed, its first half: a request to verify-paymongo-session
\* upgrades no user other than the one whose id was stored in the metadata of
\* the session when it was created.
C11_OnlyMetadataUser ==
  [][\A session_id \in SessionIds, user_id \in UserIds,
        fetchOk \in BOOLEAN, dbOk \in BOOLEAN :
       VerifyPaymongoSession("POST", session_id, user_id, fetchOk, dbOk) =>
         \A u \in UserIds :
           users'[u] # users[u] =>
             /\ sessions[session_id] # None
             /\ sessions[session_id].metadata.user_id = u]_vars

\* C12 as claimed: a POST to create-checkout-session creates a session only
\* for plan 'premium' (145000 centavos) or 'vip' (495000 centavos) with a
\* non-empty userId, the amount depending on the plan alone; for every other
\* plan value the response is 400 'Invalid plan' and no request reaches
\* PayMongo (no 'PayMongo API error' is relayed, no session appears).
C12_OnlyKnownPlans ==
  [][\A plan \in Plans, userId \in UserIds \cup {""},
        secretKeySet \in BOOLEAN, apiOk \in BOOLEAN :
       CreateCheckoutSession("POST", plan, userId, secretKeySet, apiOk) =>
         /\ \A id \in SessionIds :
              sessions'[id] # sessions[id] =>
                /\ userId # ""
                /\ \/ plan = "premium" /\ sessions'[id].amount = 145000
                   \/ plan = "vip" /\ sessions'[id].amount = 495000
         /\ plan \notin {"premium", "vip"} =>
              /\ exchange'.status = 400
              /\ exchange'.error = "Invalid plan. Must be \"premium\" or \"vip\""
              /\ sessions' = sessions]_vars

----------------------------------------------------------------------------
(* services/TwelveDataService.ts                                           *)

MAX_REQUESTS_PER_DAY == 800

\* httpRequests counts up to one past the limit and stays there
HttpCap == MAX_REQUESTS_PER_DAY + 1

CountHttp(n, k) == IF n + k > HttpCap THEN HttpCap ELSE n + k

\* canMakeRequest(): the counter and the period after its daily reset, and
\* the boolean returned
canMakeRequest ==
  LET count == IF dayElapsed THEN 0 ELSE requestCount
  IN [requestCount |-> count,
      dayElapsed |-> FALSE,
      httpRequests |-> IF dayElapsed THEN 0 ELSE httpRequests,
      allowed |-> count < MAX_REQUESTS_PER_DAY]

\* the HTTP requests one getGoldPrice call sends: GET /price, and GET /quote
\* unless the price response is an error or the request throws
GoldPriceRequests(price) == IF price = "ok" THEN 2 ELSE 1

\* getGoldPrice(); price: the outcome of GET /price ("ok", "error", "throws"),
\* quoteOk: GET /quote does not throw
GetGoldPrice(price, quoteOk) ==
  /\ IF apiKey = ""
       THEN /\ lastData' = "mock"
            /\ UNCHANGED <<requestCount, dayElapsed, httpRequests>>
       ELSE LET c == canMakeRequest
            IN /\ dayElapsed' = c.dayElapsed
               /\ IF ~c.allowed
                    THEN /\ lastData' = "mock"
                         /\ requestCount' = c.requestCount
                         /\ httpRequests' = c.httpRequests
                    ELSE /\ requestCount' = c.requestCount + 1
                         /\ httpRequests' =
                              CountHttp(c.httpRequests, GoldPriceRequests(price))
                         /\ lastData' = IF price = "ok" /\ quoteOk
                                          THEN "real" ELSE "mock"
  /\ UNCHANGED <<apiKey, statusVars, lotVars, tradeVars, accessVars, payVars,
                 monitorVars>>

\* getHistoricalData(interval, outputsize); series: the outcome of
\* GET /time_series
GetHistoricalData(series) ==
  /\ IF apiKey = ""
       THEN /\ lastData' = "mock"
            /\ UNCHANGED <<requestCount, dayElapsed, httpRequests>>
       ELSE LET c == canMakeRequest
            IN /\ dayElapsed' = c.dayElapsed
               /\ IF ~c.allowed
                    THEN /\ lastData' = "mock"
                         /\ requestCount' = c.requestCount
                         /\ httpRequests' = c.httpRequests
                    ELSE /\ requestCount' = c.requestCount + 1
                         /\ httpRequests' = CountHttp(c.httpRequests, 1)
                         /\ lastData' = IF series = "ok" THEN "real" ELSE "mock"
  /\ UNCHANGED <<apiKey, statusVars, lotVars, tradeVars, accessVars, payVars,
                 monitorVars>>

\* more than 24 hours have passed since lastResetTime
DayElapses ==
  /\ ~dayElapsed
  /\ dayElapsed' = TRUE
  /\ UNCHANGED <<apiKey, requestCount, httpRequests, lastData, statusVars, lotVars,
                 tradeVars, accessVars, payVars, monitorVars>>

Outcomes == {"ok", "error", "throws"}

NextData ==
  \/ \E price \in Outcomes, quoteOk \in BOOLEAN : GetGoldPrice(price, quoteOk)
  \/ \E series \in Outcomes : GetHistoricalData(series)
  \/ DayElapses

\* the service constructed, with or without VITE_TWELVE_DATA_API_KEY
InitData ==
  /\ apiKey \in {"", "key"}
  /\ requestCount = 0
  /\ dayElapsed = FALSE
  /\ httpRequests = 0
  /\ lastData = "none"

InitSpecData ==
  StatusIdle /\ LotIdle /\ TradeIdle /\ AccessIdle /\ PayIdle /\ InitData /\ MonitorIdle

SpecData == InitSpecData /\ [][NextData]_vars

\* C13 as claimed: between two resets of the counter at most 800 HTTP
\* requests are sent to the Twelve Data API, and once the limit is reached
\* (and no reset is due) getGoldPrice and getHistoricalData return mock data
\* and send no request.
C13_AtMost800Requests ==
  [][/\ httpRequests' <= MAX_REQUESTS_PER_DAY
     /\ (requestCount >= MAX_REQUESTS_PER_DAY /\ ~dayElapsed /\ lastData' # lastData) =>
          (lastData' = "mock" /\ httpRequests' = httpRequests)]_vars

----------------------------------------------------------------------------
(* hooks/useSignalMonitor.ts, mounted by components/Dashboard.tsx          *)

\* checkSignalStatus() at the gold price currentPrice: the alerts sent and the
\* onSignalUpdate calls made after it.  The hook defines this callback; its
\* effect neither calls nor schedules it.
checkSignalStatus(currentPrice) ==
  LET hit == {i \in 1..Len(signals) :
                /\ signals[i].status = "active"
                /\ calculateSignalStatus(signals[i], currentPrice).status
                     \in {"hit_tp", "hit_sl"}}
      result(i) == IF calculateSignalStatus(signals[i], currentPrice).status = "hit_tp"
                     THEN "win" ELSE "loss"
  IN [alerts |-> alerts \cup {<<signals[i].id, result(i)>> : i \in hit},
      updateCalls |-> updateCalls + Cardinality(hit)]

\* the effect of useSignalMonitor: the interval and the initial check are
\* commented out, so it does nothing and returns no cleanup
useSignalMonitorEffect == [alerts |-> alerts, updateCalls |-> updateCalls]

\* the Dashboard mounts: useSignalMonitor({ signals, onSignalUpdate }) runs
\* and React runs its effect
MountDashboard ==
  /\ ~mounted
  /\ mounted' = TRUE
  /\ alerts' = useSignalMonitorEffect.alerts
  /\ updateCalls' = useSignalMonitorEffect.updateCalls
  /\ UNCHANGED <<marketPrice, statusVars, lotVars, tradeVars, accessVars, payVars,
                 dataVars>>

\* the Dashboard unmounts
UnmountDashboard ==
  /\ mounted
  /\ mounted' = FALSE
  /\ UNCHANGED <<marketPrice, alerts, updateCalls, statusVars, lotVars, tradeVars,
                 accessVars, payVars, dataVars>>

\* the gold price moves
MarketMoves(p) ==
  /\ p # marketPrice
  /\ marketPrice' = p
  /\ UNCHANGED <<mounted, alerts, updateCalls, statusVars, lotVars, tradeVars,
                 accessVars, payVars, dataVars>>

NextMonitor ==
  \/ MountDashboard
  \/ UnmountDashboard
  \/ \E p \in Prices : MarketMoves(p)

InitMonitor ==
  /\ signals \in SignalLists
  /\ currentGoldPrice = 0
  /\ enhancedSignals = <<>>
  /\ mounted = FALSE
  /\ marketPrice \in Prices
  /\ alerts = {}
  /\ updateCalls = 0

InitSpecMonitor ==
  InitMonitor /\ LotIdle /\ TradeIdle /\ AccessIdle /\ PayIdle /\ DataIdle

\* React mounts the Dashboard and runs its effects
SpecMonitor == InitSpecMonitor /\ [][NextMonitor]_vars /\ WF_vars(MountDashboard)

\* signal i is active and the gold price is at or beyond its take-profit or
\* stop-loss level
C14_Hit(i) ==
  IF i > Len(signals) THEN FALSE
  ELSE /\ signals[i].status = "active"
       /\ calculateSignalStatus(signals[i], marketPrice).status \in {"hit_tp", "hit_sl"}

\* sendSignalResultAlert was called for signal i and onSignalUpdate was called
C14_Alerted(i) ==
  IF i > Len(signals) THEN FALSE
  ELSE /\ \E res \in {"win", "loss"} : <<signals[i].id, res>> \in alerts
       /\ updateCalls > 0

\* C14 as claimed: while the Dashboard is mounted, whenever the gold price
\* reaches the take-profit or stop-loss level of an active signal,
\* sendSignalResultAlert is eventually called for that signal and
\* onSignalUpdate is triggered (or the Dashboard unmounts first).
C14_AlertEventually ==
  \A i \in 1..MaxSignals :
    []((mounted /\ C14_Hit(i)) => <>(~mounted \/ C14_Alerted(i)))

----------------------------------------------------------------------------
(* further properties of utils/signalStatus.ts under SpecStatus           *)

\* C15: for a well-formed buy signal the calculated status is active exactly
\* when stop_loss < price <= entry_price and pending exactly when
\* entry_price < price < take_profit; an active result has pnl <= 0 and
\* isProfit exactly at price = entry_price.  Mirrored for a well-formed sell
\* signal.
C15_WellFormedRanges ==
  currentGoldPrice > 0 =>
    \A i \in 1..Len(signals) :
      WellFormed(signals[i]) =>
        LET sig == signals[i]
            pr == currentGoldPrice
            cs == enhancedSignals[i].calculated_status
            inActive == IF sig.type = "buy"
                          THEN sig.stop_loss < pr /\ pr <= sig.entry_price
                          ELSE sig.entry_price <= pr /\ pr < sig.stop_loss
            inPending == IF sig.type = "buy"
                           THEN sig.entry_price < pr /\ pr < sig.take_profit
                           ELSE sig.take_profit < pr /\ pr < sig.entry_price
        IN /\ cs.status = "active" <=> inActive
           /\ cs.status = "pending" <=> inPending
           /\ cs.status = "active" =>
                /\ cs.pnl <= 0
                /\ cs.isProfit <=> pr = sig.entry_price

\* a well-formed buy signal is active at a loss, strictly between its stop
\* and its entry, and a well-formed sell signal is pending
C15_Witness ==
  /\ currentGoldPrice > 0
  /\ \E i \in 1..Len(signals) :
       /\ WellFormed(signals[i])
       /\ signals[i].type = "buy"
       /\ enhancedSignals[i].calculated_status.status = "active"
       /\ enhancedSignals[i].calculated_status.pnl < 0
  /\ \E i \in 1..Len(signals) :
       /\ WellFormed(signals[i])
       /\ signals[i].type = "sell"
       /\ enhancedSignals[i].calculated_status.status = "pending"

\* the price lies strictly between the stop and the target of the signal
InsideRange(sig, p) ==
  IF sig.type = "buy"
    THEN sig.stop_loss < p /\ p < sig.take_profit
    ELSE sig.take_profit < p /\ p < sig.stop_loss

\* C16: the calculated status keeps no history and enhancing changes no
\* stored field.  After every price update the enhanced list has the length
\* and the order of the stored list, every stored field of every row has its
\* stored value, the stored list itself is unchanged, the calculated status
\* is the one the row and the latest price give, and a well-formed signal
\* shown as hit_tp or hit_sl before the update is shown as active or pending
\* again when the new price is back inside its range.
C16_NoHistoryNoMutation ==
  [][\A p \in Prices :
       SetCurrentGoldPrice(p) =>
         /\ signals' = signals
         /\ Len(enhancedSignals') = Len(signals)
         /\ \A i \in 1..Len(signals) :
              /\ \A f \in DOMAIN signals[i] : enhancedSignals'[i][f] = signals[i][f]
              /\ DOMAIN enhancedSignals'[i] = DOMAIN signals[i] \cup {"calculated_status"}
              /\ enhancedSignals'[i].calculated_status = calculateSignalStatus(signals[i], p)
              /\ (/\ WellFormed(signals[i])
                  /\ enhancedSignals # <<>>
                  /\ InsideRange(signals[i], p))
                 => enhancedSignals'[i].calculated_status.status \in {"active", "pending"}]_vars

\* two signals have been enhanced, in the stored order, and a well-formed one
\* whose stored status is still 'active' is shown as hit_tp or hit_sl while
\* prices inside its range exist for the next update
C16_Witness ==
  /\ currentGoldPrice > 0
  /\ Len(enhancedSignals) = 2
  /\ enhancedSignals[1].id = 1 /\ enhancedSignals[2].id = 2
  /\ \E i \in 1..Len(signals) :
       /\ WellFormed(signals[i])
       /\ enhancedSignals[i].status = "active"
       /\ enhancedSignals[i].calculated_status.status \in {"hit_tp", "hit_sl"}
       /\ \E p \in Prices : InsideRange(signals[i], p)

----------------------------------------------------------------------------
(* further properties of BrokerIntegrationService under Spec               *)

\* C17 as claimed: when executeSignalAutoTrade returns, every order the
\* broker accepted during the call has a trade_executions row for that
\* signal and account with status 'filled' and the broker's order id, and
\* every row the call added belongs to an order the broker accepted.
C17_AcceptedOrdersRecorded ==
  [][/\ \A p \in openPositions' \ openPositions :
          \E e \in trade_executions' :
            /\ e.status = "filled"
            /\ e.broker_order_id = p.id
            /\ e.signal_id = PositionSignal(p).id
            /\ trading_accounts[e.trading_account_id].account_id = p.account_id
     /\ \A e \in trade_executions' \ trade_executions :
          \E p \in openPositions' \ openPositions : p.id = e.broker_order_id]_vars

----------------------------------------------------------------------------
(* a PayMongo subscription over time: api/paymongo-webhook.ts activates,  *)
(* useAuth loads the users row, useFeatureAccess answers                   *)

\* the last day the model's calendar reaches
MaxDay == 31

\* the calendar moves on by the 30 days of a subscription period, or by a
\* day more; no code of the application runs
DaysPass(n) ==
  /\ today + n <= MaxDay
  /\ today' = today + n
  /\ UNCHANGED <<users, notifications, sessions, exchange, webhookSecret,
                 statusVars, lotVars, tradeVars, accessVars, dataVars, monitorVars>>

\* fetchUserProfile(userId) succeeded: setProfile(data) with the users row
FetchUserProfile(userId) ==
  /\ profile # users[userId]
  /\ profile' = users[userId]
  /\ UNCHANGED <<accessCheck, statusVars, lotVars, tradeVars, payVars, dataVars, monitorVars>>

\* the signed checkout_session.payment.paid events PayMongo sends
PaidBodies ==
  {b \in WebhookBodies :
     /\ b # Malformed
     /\ b.type = "checkout_session.payment.paid"
     /\ b.metadata.user_id \in UserIds
     /\ b.metadata.plan \in {"premium", "vip"}}

NextSubscription ==
  \/ \E body \in PaidBodies, dbOk \in BOOLEAN, notifOk \in BOOLEAN :
       PaymongoWebhook("POST", Hmac(webhookSecret, body), body, dbOk, notifOk)
  \/ \E n \in {30, 31} : DaysPass(n)
  \/ \E u \in UserIds : FetchUserProfile(u)
  \/ \E f \in Features : CheckAccess(f)

InitSpecSubscription ==
  /\ StatusIdle /\ LotIdle /\ TradeIdle /\ AccessIdle /\ InitPay /\ DataIdle /\ MonitorIdle
  /\ webhookSecret # ""

SpecSubscription == InitSpecSubscription /\ [][NextSubscription]_vars

\* C18, first half: the users row a paid event writes ends 30 days after the
\* day of activation
C18_EndDateThirtyDays ==
  [][\A u \in UserIds :
       users'[u] # users[u] =>
         /\ users'[u].subscription_status = "active"
         /\ users'[u].subscription_end_date = Date(today + 30)]_vars

\* the subscription of the loaded profile has run out: its end date has
\* passed or its status is no longer 'active'
C18_RunOut ==
  IF profile = None THEN FALSE
  ELSE \/ profile.subscription_status # "active"
       \/ IF profile.subscription_end_date = None THEN FALSE
          ELSE profile.subscription_end_date.day < today

\* C18 as claimed: once the end date of a PayMongo subscription has passed,
\* or its status is no longer 'active', hasAccess grants no feature beyond
\* those of the free tier.
C18_NoAccessAfterEnd ==
  [][\A f \in Features :
       (CheckAccess(f) /\ C18_RunOut) =>
         (accessCheck'.granted => f \in TIER_FEATURES["free"])]_vars

====
